---- MODULE Spec2Model ----
(***************************************************************************)
(* Model of homework_bot (src/homework.py): the polling loop of main(),    *)
(* the functions it calls (check_tokens, get_api_answer, check_response,   *)
(* parse_status, send_message) and the message tables they format.         *)
(*                                                                         *)
(* TLA+ strings are ASCII: the Russian texts of the message tables are     *)
(* written in Latin transliteration, one string per source string.         *)
(*                                                                         *)
(* main() is modelled from its entry.  The names ServerAccessError and     *)
(* ServerResponseError that homework.py imports are taken as two distinct  *)
(* exception classes deriving from Exception; what the import statement    *)
(* itself does with src/exceptions.py is the operator ImportFrom.          *)
(***************************************************************************)
EXTENDS Integers, Sequences, FiniteSets, TLC

(***************************************************************************)
(* Bounds of the model.                                                    *)
(***************************************************************************)
\* number of iterations of the while-True loop that are explored
MaxIter == 3
\* int(time.time()) when main() starts (seconds; any positive value)
StartTime == 1

(***************************************************************************)
(* Python values.  A JSON value decoded by response.json() carries its     *)
(* Python type: dict (a sequence of <<key, value>> pairs in document       *)
(* order), list, str, int, NoneType.                                       *)
(***************************************************************************)
JDict(pairs) == [t |-> "dict", v |-> pairs]
JList(items) == [t |-> "list", v |-> items]
JStr(s) == [t |-> "str", v |-> s]
JInt(n) == [t |-> "int", v |-> n]
JNone == [t |-> "NoneType", v |-> 0]

\* dict.keys()
Keys(d) == {d.v[i][1] : i \in 1..Len(d.v)}
\* d[key], for a key that is present
Get(d, key) == LET i == CHOOSE j \in 1..Len(d.v) : d.v[j][1] = key IN d.v[i][2]
\* list(d.values())
Values(d) == [i \in 1..Len(d.v) |-> d.v[i][2]]

\* bool(x): the truth value Python gives a decoded value
Truthy(x) ==
    CASE x.t = "int" -> x.v # 0
      [] x.t = "str" -> x.v # ""
      [] x.t = "NoneType" -> FALSE
      [] x.t \in {"list", "dict"} -> Len(x.v) > 0

\* str(x) for the scalar values that are formatted into messages
Str(x) ==
    CASE x.t = "str" -> x.v
      [] x.t = "int" -> ToString(x.v)
      [] x.t = "NoneType" -> "None"

\* str(type(x))
TypeName(x) == "<class '" \o x.t \o "'>"

(***************************************************************************)
(* Exceptions: a raised exception is its class and its message; NoExc      *)
(* stands for "nothing raised".  A function result is the pair of what it  *)
(* raised and what it returned.                                            *)
(***************************************************************************)
NoExc == [type |-> "None", text |-> ""]
Exc(type, text) == [type |-> type, text |-> text]
Raise(e) == [exc |-> e, value |-> JNone]
Return(v) == [exc |-> NoExc, value |-> v]

\* str(error): KeyError shows the repr of its argument, the others the text
StrOfError(e) ==
    IF e.type = "KeyError" THEN "'" \o e.text \o "'" ELSE e.text

(***************************************************************************)
(* str.format: a template is a sequence of literal segments and named      *)
(* placeholders; format substitutes the keyword arguments.                 *)
(***************************************************************************)
Lit(s) == [kind |-> "lit", s |-> s]
Ph(name) == [kind |-> "ph", s |-> name]

RECURSIVE Format(_, _)
Format(template, kwargs) ==
    IF template = <<>> THEN ""
    ELSE LET seg == Head(template)
             piece == IF seg.kind = "lit" THEN seg.s ELSE kwargs[seg.s]
         IN piece \o Format(Tail(template), kwargs)

(***************************************************************************)
(* Module-level constants of homework.py.                                  *)
(***************************************************************************)
RETRY_PERIOD == 6
ENDPOINT == "https://practicum.yandex.ru/api/user_api/homework_statuses/"

HOMEWORK_VERDICTS ==
    [approved |-> "Rabota proverena: revyueru vsyo ponravilos. Ura!",
     reviewing |-> "Rabota vzyata na proverku revyuerom.",
     rejected |-> "Rabota proverena: u revyuera est zamechaniya."]

ERROR_MESSAGES ==
    [send_message |->
        <<Lit("Sboj pri otpravke soobshcheniya: \""), Ph("message"),
          Lit("\" v Telegramm - "), Ph("error")>>,
     check_tokens |->
        [KeyError |-> <<Lit("Net dostupa k tokenam: "), Ph("lost_tokens")>>,
         critical_error |-> <<Ph("error"), Lit(". Zavershayu rabotu!")>>],
     get_api_answer |->
        ("requests.ConnectionError" :>
            <<Lit("Nepredvidennaya oshibka pri zaprose k API Praktikuma. "),
              Lit("Parametry zaprosa: url="), Ph("ENDPOINT"),
              Lit(", headers="), Ph("HEADERS"),
              Lit(". Oshibka - "), Ph("error")>>)
        @@ [ServerAccessError |->
                <<Lit("Oshibka dostupa k API Praktikuma. "),
                  Lit("Parametry zaprosa: url="), Ph("ENDPOINT"),
                  Lit(", headers="), Ph("HEADERS"),
                  Lit(". Status.kod: "), Ph("status_code")>>,
            ServerResponseError |->
                <<Lit("Otkaz v obsluzhivanii servera Praktikuma. "),
                  Lit("Parametry zaprosa: url="), Ph("ENDPOINT"),
                  Lit(", headers="), Ph("HEADERS"),
                  Lit(". Soobshchenie servera: "), Ph("message")>>],
     check_response |->
        [KeyError |->
            <<Lit("Otsutstvuet neobhodimyj klyuch \"homeworks\" v otvete API")>>,
         TypeError1 |-> <<Lit("Otvet API ne soderzhit slovarya")>>,
         TypeError2 |->
            <<Lit("Nevernyj tip domashnej raboty. Tip poluchennoj domashnej "),
              Lit("raboty: "), Ph("type_hw"), Lit(", dolzhen byt list")>>],
     parse_status |->
        [KeyError1 |-> <<Lit("V \"homework\" otsutstvuet klyuch \"homework_name\"")>>,
         KeyError2 |-> <<Lit("V \"homework\" otsutstvuet klyuch \"status\"")>>,
         KeyError3 |->
            <<Lit("Neizvestnyj status domashnej raboty: "), Ph("status")>>],
     program_crash |-> <<Lit("Sboj v rabote programmy: "), Ph("error")>>,
     access_error |-> <<Lit("Oshibka dostupa: "), Ph("error")>>,
     connection_problems |-> <<Lit("Nepoladki soedineniya: "), Ph("error")>>]

SUCCESSFUL_MESSAGES ==
    [send_message |->
        <<Lit("Udachnaya otpravka soobshcheniya: \""), Ph("message"),
          Lit("\" v Telegram")>>,
     parse_status |->
        <<Lit("Izmenilsya status proverki raboty \""), Ph("homework_name"),
          Lit("\". "), Ph("verdict")>>,
     bot_init |-> <<Lit("Bot vklyuchen.")>>,
     no_new_status |-> <<Lit("Novye statusy v domashnej rabote otsutstvuyut")>>]

\* a table entry used as a plain string (no .format call)
Text(template) == Format(template, <<>>)

(***************************************************************************)
(* State.                                                                  *)
(***************************************************************************)
VARIABLES
    PRACTICUM_TOKEN,   \* os.getenv('PRACTICUM_TOKEN'): None or a str
    TELEGRAM_TOKEN,    \* os.getenv('TELEGRAM_TOKEN')
    TELEGRAM_CHAT_ID,  \* os.getenv('TELEGRAM_CHAT_ID')
    pc,                \* where main() stands
    bot,               \* main's local bot: "unbound" or "Bot"
    timestamp,         \* main's local timestamp (a decoded value)
    current_message,   \* main's local current_message: [bound, value]
    pending,           \* exception in flight while the finally block runs
    uncaught,          \* exception that left main(), or SystemExit
    exit_status,       \* process exit status once main() has ended, else -1
    iteration,         \* number of the loop iteration (0 before the loop)
    now,               \* the clock, int(time.time())
    from_date,         \* params['from_date'] of the last GET sent
    fetches,           \* number of GET requests issued
    response,          \* what the last GET produced (the HTTP outcome)
    started,           \* timestamp as it was when this iteration began
    previous,          \* the iteration before this one, as it ended
    failure,           \* exception the try body of this iteration raised
    call,              \* last send_message call: [iteration, message, delivered]
    chat_last,         \* last text delivered to the Telegram chat: [bound, value]
    delivered,         \* number of texts delivered to the chat
    sleeps,            \* number of time.sleep calls completed
    log,               \* records the last step gave the logger: <<level, text>>
    parsed,            \* whether this iteration's try body called parse_status
    assigned_in,       \* iteration that last assigned current_message (0: none)
    result             \* what a direct call of check_response gave: [exc, value]

vars == <<PRACTICUM_TOKEN, TELEGRAM_TOKEN, TELEGRAM_CHAT_ID, pc, bot, timestamp,
          current_message, pending, uncaught, exit_status, iteration, now,
          from_date, fetches, response, started, previous, failure, call,
          chat_last, delivered, sleeps, log, parsed, assigned_in, result>>

tokens == <<PRACTICUM_TOKEN, TELEGRAM_TOKEN, TELEGRAM_CHAT_ID>>

\* HEADERS = {'Authorization': f'OAuth {PRACTICUM_TOKEN}'}, as str() shows it
HEADERS == "{'Authorization': 'OAuth " \o Str(PRACTICUM_TOKEN) \o "'}"

(***************************************************************************)
(* The import of the exception classes when homework.py is loaded.         *)
(***************************************************************************)
\* the names that src/exceptions.py defines
exceptions ==
    {"ServerError", "KeysNotFoundExeption", "StatusKeysException",
     "UnknownStatusException"}

\* from exceptions import (ServerAccessError, ServerResponseError,)
ImportedNames == <<"ServerAccessError", "ServerResponseError">>

\* "from module import names": ImportError for the first name that the
\* module does not define, else nothing raised
ImportFrom(module, names) ==
    IF \A i \in 1..Len(names) : names[i] \in module
    THEN NoExc
    ELSE Exc("ImportError",
             "cannot import name '"
             \o names[CHOOSE i \in 1..Len(names) :
                         /\ names[i] \notin module
                         /\ \A j \in 1..(i - 1) : names[j] \in module]
             \o "' from 'exceptions'")

(***************************************************************************)
(* check_tokens                                                            *)
(***************************************************************************)
RECURSIVE Join(_, _)
\* sep.join(parts)
Join(parts, sep) ==
    IF parts = <<>> THEN ""
    ELSE IF Len(parts) = 1 THEN parts[1]
    ELSE parts[1] \o sep \o Join(Tail(parts), sep)

TokenNames == <<"PRACTICUM_TOKEN", "TELEGRAM_TOKEN", "TELEGRAM_CHAT_ID">>

\* the names, in order, whose value is falsy (None or '')
LostTokens(values) ==
    LET Test(i) == ~Truthy(values[i])
    IN SelectSeq(TokenNames,
                 LAMBDA n : \E i \in 1..3 : TokenNames[i] = n /\ Test(i))

check_tokens(values) ==
    LET lost_tokens == LostTokens(values)
    IN IF lost_tokens # <<>>
       THEN Raise(Exc("KeyError",
                      Format(ERROR_MESSAGES.check_tokens.KeyError,
                             [lost_tokens |-> Join(lost_tokens, ", ")])))
       ELSE Return(JNone)

(***************************************************************************)
(* get_api_answer                                                          *)
(***************************************************************************)
\* timestamp = timestamp or int(time.time())
FromDate(ts, clock) == IF Truthy(ts) THEN ts ELSE JInt(clock)

Alphabet == {"a", "b", "c"}
\* the characters of a two-character str
Chars2(s) == CHOOSE p \in Alphabet \X Alphabet : p[1] \o p[2] = s

\* what iterating over x yields, a sequence; only for iterable x
Items(x) ==
    CASE x.t = "list" -> x.v
      [] x.t = "dict" -> [i \in 1..Len(x.v) |-> JStr(x.v[i][1])]
      [] x.t = "str" ->
            IF Len(x.v) = 2
            THEN <<JStr(Chars2(x.v)[1]), JStr(Chars2(x.v)[2])>>
            ELSE [i \in 1..Len(x.v) |-> JStr("?")]

\* "key, value = x": the exception the unpacking raises, or NoExc
Unpack2(x) ==
    IF x.t \in {"int", "NoneType"}
    THEN Exc("TypeError", "cannot unpack non-iterable " \o x.t \o " object")
    ELSE IF Len(Items(x)) > 2
    THEN Exc("ValueError", "too many values to unpack (expected 2)")
    ELSE IF Len(Items(x)) < 2
    THEN Exc("ValueError", "not enough values to unpack (expected 2, got "
                           \o ToString(Len(Items(x))) \o ")")
    ELSE NoExc

\* the loop "for key, value in response.values(): message.append(...)"
RejectionMessage(resp) ==
    LET vals == Values(resp)
        bad == {i \in 1..Len(vals) : Unpack2(vals[i]) # NoExc}
    IN IF bad # {}
       THEN Raise(Unpack2(vals[CHOOSE i \in bad : \A j \in bad : i <= j]))
       ELSE Return(JStr(Join([i \in 1..Len(vals) |->
                                 Str(Items(vals[i])[1]) \o " - "
                                 \o Str(Items(vals[i])[2])], ", ")))

get_api_answer(ts, clock, http) ==
    IF http.kind = "RequestException"
    THEN Raise(Exc("ConnectionError",
                   Format(ERROR_MESSAGES.get_api_answer["requests.ConnectionError"],
                          [ENDPOINT |-> ENDPOINT, HEADERS |-> HEADERS,
                           error |-> http.error])))
    ELSE IF http.status_code # 200
    THEN Raise(Exc("ServerAccessError",
                   Format(ERROR_MESSAGES.get_api_answer.ServerAccessError,
                          [ENDPOINT |-> ENDPOINT, HEADERS |-> HEADERS,
                           status_code |-> ToString(http.status_code)])))
    ELSE IF ~http.decodes
    THEN Raise(Exc("JSONDecodeError", "Expecting value: line 1 column 1 (char 0)"))
    ELSE IF http.json.t # "dict"
    THEN Raise(Exc("AttributeError",
                   "'" \o http.json.t \o "' object has no attribute 'keys'"))
    ELSE IF "error" \in Keys(http.json) \/ "code" \in Keys(http.json)
    THEN LET message == RejectionMessage(http.json)
         IN IF message.exc # NoExc
            THEN Raise(message.exc)
            ELSE Raise(Exc("ServerResponseError",
                           Format(ERROR_MESSAGES.get_api_answer.ServerResponseError,
                                  [ENDPOINT |-> ENDPOINT, HEADERS |-> HEADERS,
                                   message |-> message.value.v])))
    ELSE Return(http.json)

(***************************************************************************)
(* check_response                                                          *)
(***************************************************************************)
\* a variant of check_response that tests 'homeworks' not in response before
\* the isinstance test: a list that lacks the element raises KeyError
check_response_KeyFirst(resp) ==
    IF resp.t = "list" /\ \A i \in 1..Len(resp.v) : resp.v[i] # JStr("homeworks")
    THEN Raise(Exc("KeyError", Text(ERROR_MESSAGES.check_response.KeyError)))
    ELSE IF resp.t # "dict"
    THEN Raise(Exc("TypeError", Text(ERROR_MESSAGES.check_response.TypeError1)))
    ELSE IF "homeworks" \notin Keys(resp)
    THEN Raise(Exc("KeyError", Text(ERROR_MESSAGES.check_response.KeyError)))
    ELSE IF Get(resp, "homeworks").t # "list"
    THEN Raise(Exc("TypeError",
                   Format(ERROR_MESSAGES.check_response.TypeError2,
                          [type_hw |-> TypeName(Get(resp, "homeworks"))])))
    ELSE Return(Get(resp, "homeworks"))

check_response(resp) ==
    IF resp.t # "dict"
    THEN Raise(Exc("TypeError", Text(ERROR_MESSAGES.check_response.TypeError1)))
    ELSE IF "homeworks" \notin Keys(resp)
    THEN Raise(Exc("KeyError", Text(ERROR_MESSAGES.check_response.KeyError)))
    ELSE LET homeworks == Get(resp, "homeworks")
         IN IF homeworks.t # "list"
            THEN Raise(Exc("TypeError",
                           Format(ERROR_MESSAGES.check_response.TypeError2,
                                  [type_hw |-> TypeName(homeworks)])))
            ELSE Return(homeworks)

(***************************************************************************)
(* parse_status                                                            *)
(***************************************************************************)
\* "key in homework": a result whose value is the truth of the test
Contains(homework, key) ==
    CASE homework.t = "dict" -> Return(key \in Keys(homework))
      [] homework.t = "list" ->
            Return(\E i \in 1..Len(homework.v) : homework.v[i] = JStr(key))
      [] homework.t \in {"int", "NoneType"} ->
            Raise(Exc("TypeError",
                      "argument of type '" \o homework.t \o "' is not iterable"))

\* homework[key] once "key in homework" held
Subscript(homework, key) ==
    IF homework.t = "dict" THEN Return(Get(homework, key))
    ELSE Raise(Exc("TypeError",
                   "list indices must be integers or slices, not str"))

\* a variant of parse_status that puts the status code where the verdict
\* sentence belongs
parse_status_StatusAsVerdict(homework) ==
    LET has_name == Contains(homework, "homework_name")
        has_status == Contains(homework, "status")
        status == Subscript(homework, "status")
        homework_name == Subscript(homework, "homework_name")
    IN IF has_name.exc # NoExc THEN Raise(has_name.exc)
       ELSE IF ~has_name.value
       THEN Raise(Exc("KeyError", Text(ERROR_MESSAGES.parse_status.KeyError1)))
       ELSE IF ~has_status.value
       THEN Raise(Exc("KeyError", Text(ERROR_MESSAGES.parse_status.KeyError2)))
       ELSE IF status.exc # NoExc THEN Raise(status.exc)
       ELSE IF status.value.t \in {"list", "dict"}
       THEN Raise(Exc("TypeError", "unhashable type: '" \o status.value.t \o "'"))
       ELSE IF ~(status.value.t = "str"
                 /\ status.value.v \in DOMAIN HOMEWORK_VERDICTS)
       THEN Raise(Exc("KeyError",
                      Format(ERROR_MESSAGES.parse_status.KeyError3,
                             [status |-> Str(status.value)])))
       ELSE Return(JStr(Format(SUCCESSFUL_MESSAGES.parse_status,
                               [homework_name |-> Str(homework_name.value),
                                verdict |-> status.value.v])))

parse_status(homework) ==
    LET has_name == Contains(homework, "homework_name")
        has_status == Contains(homework, "status")
        status == Subscript(homework, "status")
        homework_name == Subscript(homework, "homework_name")
    IN IF has_name.exc # NoExc THEN Raise(has_name.exc)
       ELSE IF ~has_name.value
       THEN Raise(Exc("KeyError", Text(ERROR_MESSAGES.parse_status.KeyError1)))
       ELSE IF ~has_status.value
       THEN Raise(Exc("KeyError", Text(ERROR_MESSAGES.parse_status.KeyError2)))
       ELSE IF status.exc # NoExc THEN Raise(status.exc)
       ELSE IF status.value.t \in {"list", "dict"}
       THEN Raise(Exc("TypeError", "unhashable type: '" \o status.value.t \o "'"))
       ELSE IF ~(status.value.t = "str"
                 /\ status.value.v \in DOMAIN HOMEWORK_VERDICTS)
       THEN Raise(Exc("KeyError",
                      Format(ERROR_MESSAGES.parse_status.KeyError3,
                             [status |-> Str(status.value)])))
       ELSE Return(JStr(Format(SUCCESSFUL_MESSAGES.parse_status,
                               [homework_name |-> Str(homework_name.value),
                                verdict |-> HOMEWORK_VERDICTS[status.value.v]])))

\* a variant of send_message without the try statement: telegram's error
\* reaches the caller
send_message_NoCatch(message, tg) ==
    IF tg.ok
    THEN [exc |-> NoExc, delivered |-> TRUE,
          log |-> <<<<"DEBUG", Format(SUCCESSFUL_MESSAGES.send_message,
                                      [message |-> message])>>>>]
    ELSE [exc |-> Exc("TelegramError", tg.error), delivered |-> FALSE,
          log |-> <<>>]

(***************************************************************************)
(* send_message: the call bot.send_message(TELEGRAM_CHAT_ID, message) ends *)
(* as tg says (delivered, or telegram.TelegramError raised); the function  *)
(* catches that error and logs either way.  Its result: what it raised,    *)
(* whether the text reached the chat, and what it logged.                  *)
(***************************************************************************)
send_message(message, tg) ==
    IF tg.ok
    THEN [exc |-> NoExc, delivered |-> TRUE,
          log |-> <<<<"DEBUG", Format(SUCCESSFUL_MESSAGES.send_message,
                                      [message |-> message])>>>>]
    ELSE [exc |-> NoExc, delivered |-> FALSE,
          log |-> <<<<"ERROR", Format(ERROR_MESSAGES.send_message,
                                      [message |-> message,
                                       error |-> tg.error])>>>>]

(***************************************************************************)
(* main: the body of the try statement of the loop (lines 223-230) and the *)
(* except clauses (lines 231-254).                                         *)
(***************************************************************************)
Unbound == [bound |-> FALSE, value |-> ""]
Bound(v) == [bound |-> TRUE, value |-> v]

\* what the try body leaves behind: the exception raised (or NoExc), the
\* two locals it assigns, and what it logged
Outcome(exc, cm, ts, logged) ==
    [exc |-> exc, current_message |-> cm, timestamp |-> ts, log |-> logged,
     parsed |-> FALSE, assigned |-> FALSE]

\* the outcome o, current_message having been assigned on the way
Assigned(o) == [o EXCEPT !.assigned = TRUE]

\* the outcome o, parse_status having been called on the way
Parsed(o) == [o EXCEPT !.parsed = TRUE]

\* a variant of SetTimestamp that reads response.get('current_date'): None
\* when the key is absent, and nothing raised
SetTimestamp_Get(ts, resp, message, logged) ==
    Assigned(
      IF "current_date" \notin Keys(resp)
      THEN Outcome(NoExc, Bound(message), JNone, logged)
      ELSE Outcome(NoExc, Bound(message), Get(resp, "current_date"), logged))

\* line 230: timestamp = response['current_date'], current_message being set
SetTimestamp(ts, resp, message, logged) ==
    Assigned(
      IF "current_date" \notin Keys(resp)
      THEN Outcome(Exc("KeyError", "current_date"), Bound(message), ts, logged)
      ELSE Outcome(NoExc, Bound(message), Get(resp, "current_date"), logged))

\* line 229: current_message = parse_status(new_homeworks[0])
SetParsed(ts, cm, resp, status) ==
    Parsed(IF status.exc # NoExc
           THEN Outcome(status.exc, cm, ts, <<>>)
           ELSE SetTimestamp(ts, resp, status.value.v, <<>>))

\* line 226-227: the fixed sentence, logged at debug level
SetNoNewStatus(ts, resp, message) ==
    SetTimestamp(ts, resp, message, <<<<"DEBUG", message>>>>)

\* a variant of Checked without the test for an empty list: new_homeworks[0]
\* is evaluated for every list, and raises IndexError for an empty one
Checked_NoEmptyTest(ts, cm, resp, new_homeworks) ==
    IF new_homeworks.exc # NoExc
    THEN Outcome(new_homeworks.exc, cm, ts, <<>>)
    ELSE IF ~Truthy(new_homeworks.value)
    THEN Outcome(Exc("IndexError", "list index out of range"), cm, ts, <<>>)
    ELSE SetParsed(ts, cm, resp, parse_status(new_homeworks.value.v[1]))

\* a variant of Checked that reads the status off the last record of the
\* list, new_homeworks[-1]
Checked_LastRecord(ts, cm, resp, new_homeworks) ==
    IF new_homeworks.exc # NoExc
    THEN Outcome(new_homeworks.exc, cm, ts, <<>>)
    ELSE IF ~Truthy(new_homeworks.value)
    THEN SetNoNewStatus(ts, resp, Text(SUCCESSFUL_MESSAGES.no_new_status))
    ELSE SetParsed(ts, cm, resp,
                   parse_status(new_homeworks.value.v[Len(new_homeworks.value.v)]))

\* lines 224-229
Checked(ts, cm, resp, new_homeworks) ==
    IF new_homeworks.exc # NoExc
    THEN Outcome(new_homeworks.exc, cm, ts, <<>>)
    ELSE IF ~Truthy(new_homeworks.value)
    THEN SetNoNewStatus(ts, resp, Text(SUCCESSFUL_MESSAGES.no_new_status))
    ELSE SetParsed(ts, cm, resp, parse_status(new_homeworks.value.v[1]))

\* a variant of Fetched that takes timestamp from the response as soon as it
\* is fetched, before it is validated
Fetched_TimestampFirst(ts, cm, resp) ==
    IF resp.exc # NoExc
    THEN Outcome(resp.exc, cm, ts, <<>>)
    ELSE Checked(IF resp.value.t = "dict" /\ "current_date" \in Keys(resp.value)
                 THEN Get(resp.value, "current_date") ELSE ts,
                 cm, resp.value, check_response(resp.value))

\* lines 223-224
Fetched(ts, cm, resp) ==
    IF resp.exc # NoExc
    THEN Outcome(resp.exc, cm, ts, <<>>)
    ELSE Checked(ts, cm, resp.value, check_response(resp.value))

\* lines 223-230: the try body, given what the GET produced
TryBody(ts, cm, clock, http) ==
    Fetched(ts, cm, get_api_answer(ts, clock, http))

\* the key of ERROR_MESSAGES that the except clause matching e looks up
HandlerKey(e) ==
    CASE e.type = "ConnectionError" -> "connection_problems"
      [] e.type = "ServerAccessError" -> "access_error"
      [] e.type = "ServerResponseError" -> "programm_crash"
      [] e.type = "KeyError" -> "programm_crash"
      [] e.type = "TypeError" -> "programm_crash"
      [] OTHER -> "programm_crash"

\* the except clause run for e: the subscript ERROR_MESSAGES[key] raises
\* KeyError when the table has no such key, before current_message is set
Handled(key, e, cm, text) ==
    IF key \in DOMAIN ERROR_MESSAGES
    THEN [current_message |-> Bound(text), pending |-> NoExc,
          log |-> <<<<"ERROR", text>>>>, assigned |-> TRUE]
    ELSE [current_message |-> cm, pending |-> Exc("KeyError", key),
          log |-> <<>>, assigned |-> FALSE]

ExceptClause(e, cm) ==
    Handled(HandlerKey(e), e, cm,
            Format(ERROR_MESSAGES[HandlerKey(e)], [error |-> StrOfError(e)]))

(***************************************************************************)
(* What the outside world can answer.                                      *)
(***************************************************************************)
TokenValues == {JNone, JStr(""), JStr("tok")}

TelegramOutcomes ==
    {[ok |-> TRUE, error |-> ""], [ok |-> FALSE, error |-> "Timed out"]}

HomeworkNames == {"P1", "Project X"}
Statuses == {"approved", "reviewing", "rejected", "unknown"}
CurrentDates == {0, 1000}

HomeworkRecords ==
    {JDict(<<<<"homework_name", JStr("P1")>>, <<"status", JStr(st)>>>>) :
        st \in Statuses}
    \cup {JDict(<<<<"homework_name", JStr(n)>>, <<"status", JStr("reviewing")>>>>) :
        n \in HomeworkNames}
    \cup {JDict(<<<<"status", JStr("approved")>>>>),
          JDict(<<<<"homework_name", JStr("P1")>>>>),
          JInt(7)}

HomeworkLists ==
    {JList(<<>>)}
    \cup {JList(<<h>>) : h \in HomeworkRecords}
    \cup {JList(<<JDict(<<<<"homework_name", JStr("P1")>>,
                          <<"status", JStr("approved")>>>>), h>>) :
            h \in {JDict(<<<<"homework_name", JStr("Project X")>>,
                           <<"status", JStr("rejected")>>>>),
                   JDict(<<<<"homework_name", JStr("P1")>>,
                           <<"status", JStr("unknown")>>>>)}}

JsonBodies ==
    {JDict(<<<<"homeworks", hw>>, <<"current_date", JInt(d)>>>>) :
        hw \in HomeworkLists, d \in CurrentDates}
    \cup {JDict(<<<<"homeworks", hw>>>>) : hw \in HomeworkLists}
    \cup {JDict(<<<<"current_date", JInt(1000)>>>>),
          JDict(<<<<"homeworks", JStr("none")>>, <<"current_date", JInt(1000)>>>>),
          JDict(<<<<"code", JStr("not_authenticated")>>,
                  <<"message", JStr("Uchetnye dannye ne byli predostavleny.")>>>>),
          JDict(<<<<"error", JList(<<JStr("E42"), JStr("denied")>>)>>>>),
          JDict(<<<<"error", JStr("ab")>>, <<"code", JInt(5)>>>>),
          JList(<<>>)}

NoHttp ==
    [kind |-> "None", error |-> "", status_code |-> 0, decodes |-> FALSE,
     json |-> JNone]

HttpOutcomes ==
    {[kind |-> "RequestException", error |-> e, status_code |-> 0,
      decodes |-> FALSE, json |-> JNone] :
        e \in {"Connection refused"}}
    \cup {[kind |-> "Response", error |-> "", status_code |-> c,
           decodes |-> FALSE, json |-> JNone] : c \in {200, 404, 500}}
    \cup {[kind |-> "Response", error |-> "", status_code |-> 200,
           decodes |-> TRUE, json |-> j] : j \in JsonBodies}

(***************************************************************************)
(* main as a state machine.                                                *)
(***************************************************************************)
\* no direct call of check_response has been made
NoResult == [exc |-> NoExc, value |-> JNone]

NoCall == [iteration |-> 0, message |-> "", delivered |-> FALSE]

\* "previous" before the second iteration
NoPrevious ==
    [iteration |-> 0, response |-> NoHttp, failure |-> NoExc,
     from_date |-> JNone, started |-> JNone, call |-> NoCall]

Init ==
    /\ PRACTICUM_TOKEN \in TokenValues
    /\ TELEGRAM_TOKEN \in TokenValues
    /\ TELEGRAM_CHAT_ID \in TokenValues
    /\ pc = "check_tokens"
    /\ bot = "unbound"
    /\ timestamp = JNone
    /\ current_message = Unbound
    /\ pending = NoExc
    /\ uncaught = NoExc
    /\ exit_status = -1
    /\ iteration = 0
    /\ now = StartTime
    /\ from_date = JNone
    /\ fetches = 0
    /\ response = NoHttp
    /\ started = JNone
    /\ previous = NoPrevious
    /\ failure = NoExc
    /\ call = NoCall
    /\ chat_last = Unbound
    /\ delivered = 0
    /\ sleeps = 0
    /\ log = <<>>
    /\ parsed = FALSE
    /\ assigned_in = 0
    /\ result = NoResult

\* what a send_message call leaves in the chat and in the log; more is what
\* the caller logs after it
Sent(message, sent, more) ==
    /\ call' = [iteration |-> iteration, message |-> message,
                delivered |-> sent.delivered]
    /\ chat_last' = IF sent.delivered THEN Bound(message) ELSE chat_last
    /\ delivered' = IF sent.delivered THEN delivered + 1 ELSE delivered
    /\ log' = sent.log \o more

\* lines 207-213: check_tokens(); on KeyError log critical and sys.exit(1)
CheckTokens ==
    /\ pc = "check_tokens"
    /\ \E r \in {check_tokens(tokens)} :
          IF r.exc # NoExc
          THEN /\ log' = <<<<"CRITICAL",
                             Format(ERROR_MESSAGES.check_tokens.critical_error,
                                    [error |-> StrOfError(r.exc)])>>>>
               /\ pc' = "exited"
               /\ uncaught' = Exc("SystemExit", "1")
               /\ exit_status' = 1
          ELSE /\ log' = <<>>
               /\ pc' = "bot_init"
               /\ UNCHANGED <<uncaught, exit_status>>
    /\ UNCHANGED <<PRACTICUM_TOKEN, TELEGRAM_TOKEN, TELEGRAM_CHAT_ID, bot,
                   timestamp, current_message, pending, iteration, now,
                   from_date, fetches, response, started, previous, failure,
                   call, chat_last, delivered, sleeps, parsed, assigned_in,
                   result>>

\* lines 214-220: build the bot and announce it (telegram.TelegramError is
\* caught and logged), then timestamp = int(time.time())
BotInit ==
    /\ pc = "bot_init"
    /\ \/ \* telegram.Bot(token=...) raises telegram.TelegramError
          /\ bot' = "unbound"
          /\ log' = <<<<"ERROR", "Invalid token">>>>
          /\ UNCHANGED <<call, chat_last, delivered>>
       \/ \E tg \in TelegramOutcomes :
            \E sent \in {send_message(Text(SUCCESSFUL_MESSAGES.bot_init), tg)} :
               /\ bot' = "Bot"
               /\ Sent(Text(SUCCESSFUL_MESSAGES.bot_init), sent,
                       IF sent.exc = NoExc
                       THEN <<<<"DEBUG", Text(SUCCESSFUL_MESSAGES.bot_init)>>>>
                       ELSE <<<<"ERROR", sent.exc.text>>>>)
    /\ timestamp' = JInt(now)
    /\ iteration' = 1
    /\ pc' = "try"
    /\ UNCHANGED <<PRACTICUM_TOKEN, TELEGRAM_TOKEN, TELEGRAM_CHAT_ID,
                   current_message, pending, uncaught, exit_status, now,
                   from_date, fetches, response, started, previous, failure,
                   sleeps, parsed, assigned_in, result>>

\* the state after the try statement, before its finally block
AfterTry(http, body, handled) ==
    /\ response' = http
    /\ started' = timestamp
    /\ from_date' = FromDate(timestamp, now)
    /\ fetches' = fetches + 1
    /\ failure' = body.exc
    /\ timestamp' = body.timestamp
    /\ current_message' = handled.current_message
    /\ pending' = handled.pending
    /\ log' = body.log \o handled.log
    /\ parsed' = body.parsed
    /\ assigned_in' = IF body.assigned \/ handled.assigned
                      THEN iteration ELSE assigned_in

\* the except clause, when the body raised
Caught(body) ==
    IF body.exc = NoExc
    THEN [current_message |-> body.current_message, pending |-> NoExc,
          log |-> <<>>, assigned |-> body.assigned]
    ELSE ExceptClause(body.exc, body.current_message)

\* lines 222-254: one GET, its validation, and the except clause if any
Try ==
    /\ pc = "try"
    /\ iteration <= MaxIter
    /\ \E http \in HttpOutcomes :
         \E body \in {TryBody(timestamp, current_message, now, http)} :
            AfterTry(http, body, Caught(body))
    /\ pc' = "finally_send"
    /\ UNCHANGED <<PRACTICUM_TOKEN, TELEGRAM_TOKEN, TELEGRAM_CHAT_ID, bot,
                   uncaught, exit_status, iteration, now, previous, call,
                   chat_last, delivered, sleeps, result>>

\* main() ends with exception e leaving it: traceback, exit status 1
Leave(e) ==
    /\ pc' = "exited"
    /\ uncaught' = e
    /\ exit_status' = 1
    /\ pending' = NoExc

\* line 256: send_message(bot, current_message); reading an unbound local
\* raises UnboundLocalError, and an exception raised inside the finally
\* block leaves main() at once, in place of the one in flight
FinallySend ==
    /\ pc = "finally_send"
    /\ IF bot = "unbound" \/ ~current_message.bound
       THEN /\ Leave(Exc("UnboundLocalError",
                         IF bot = "unbound" THEN "bot" ELSE "current_message"))
            /\ log' = <<>>
            /\ UNCHANGED <<call, chat_last, delivered>>
       ELSE \E tg \in TelegramOutcomes :
              \E sent \in {send_message(current_message.value, tg)} :
                 /\ Sent(current_message.value, sent, <<>>)
                 /\ IF sent.exc # NoExc
                    THEN Leave(sent.exc)
                    ELSE /\ pc' = "finally_sleep"
                         /\ UNCHANGED <<uncaught, exit_status, pending>>
    /\ UNCHANGED <<PRACTICUM_TOKEN, TELEGRAM_TOKEN, TELEGRAM_CHAT_ID, bot,
                   timestamp, current_message, iteration, now, from_date,
                   fetches, response, started, previous, failure, sleeps,
                   parsed, assigned_in, result>>

\* line 257: time.sleep(RETRY_PERIOD); then the exception in flight, if any,
\* leaves main(), else the loop starts its next iteration
FinallySleep ==
    /\ pc = "finally_sleep"
    /\ sleeps' = sleeps + 1
    /\ now' = now + RETRY_PERIOD
    /\ log' = <<>>
    /\ IF pending # NoExc
       THEN /\ Leave(pending)
            /\ UNCHANGED <<iteration, previous>>
       ELSE /\ pc' = "try"
            /\ iteration' = iteration + 1
            /\ previous' = [iteration |-> iteration, response |-> response,
                            failure |-> failure, from_date |-> from_date,
                            started |-> started, call |-> call]
            /\ UNCHANGED <<uncaught, exit_status, pending>>
    /\ UNCHANGED <<PRACTICUM_TOKEN, TELEGRAM_TOKEN, TELEGRAM_CHAT_ID, bot,
                   timestamp, current_message, from_date, fetches, response,
                   started, failure, call, chat_last, delivered, parsed,
                   assigned_in, result>>

Next == CheckTokens \/ BotInit \/ Try \/ FinallySend \/ FinallySleep

Spec == Init /\ [][Next]_vars

(***************************************************************************)
(* check_response called on its own, on any decoded value.                 *)
(***************************************************************************)
\* values of homeworks that are not lists
NotLists ==
    {JStr("none"), JInt(3), JNone, JDict(<<>>),
     JDict(<<<<"homework_name", JStr("P1")>>, <<"status", JStr("approved")>>>>)}

\* the decoded values check_response is called with
CheckResponseArguments ==
    JsonBodies
    \cup {JList(<<>>), JList(<<JStr("homeworks")>>), JStr("homeworks"),
          JInt(0), JNone}
    \cup {JDict(<<<<"homeworks", x>>>>) : x \in NotLists}
    \cup {JDict(<<<<"homeworks", x>>, <<"current_date", JInt(1000)>>>>) :
            x \in NotLists}
    \cup {JDict(<<<<"current_date", JInt(1000)>>, <<"homeworks", x>>>>) :
            x \in NotLists \cup HomeworkLists}

InitCheckResponse ==
    /\ PRACTICUM_TOKEN = JStr("tok")
    /\ TELEGRAM_TOKEN = JStr("tok")
    /\ TELEGRAM_CHAT_ID = JStr("tok")
    /\ pc = "check_response"
    /\ response \in {[kind |-> "Response", error |-> "", status_code |-> 200,
                       decodes |-> TRUE, json |-> j] :
                         j \in CheckResponseArguments}
    /\ bot = "unbound"
    /\ timestamp = JNone
    /\ current_message = Unbound
    /\ pending = NoExc
    /\ uncaught = NoExc
    /\ exit_status = -1
    /\ iteration = 0
    /\ now = StartTime
    /\ from_date = JNone
    /\ fetches = 0
    /\ started = JNone
    /\ previous = NoPrevious
    /\ failure = NoExc
    /\ call = NoCall
    /\ chat_last = Unbound
    /\ delivered = 0
    /\ sleeps = 0
    /\ log = <<>>
    /\ parsed = FALSE
    /\ assigned_in = 0
    /\ result = NoResult

\* lines 174-186: the call check_response(response) and what it gives
CallCheckResponse ==
    /\ pc = "check_response"
    /\ result' = check_response(response.json)
    /\ pc' = "checked"
    /\ UNCHANGED <<PRACTICUM_TOKEN, TELEGRAM_TOKEN, TELEGRAM_CHAT_ID, bot,
                   timestamp, current_message, pending, uncaught, exit_status,
                   iteration, now, from_date, fetches, response, started,
                   previous, failure, call, chat_last, delivered, sleeps, log,
                   parsed, assigned_in>>

NextCheckResponse == CallCheckResponse

SpecCheckResponse == InitCheckResponse /\ [][NextCheckResponse]_vars

(***************************************************************************)
(* Vocabulary of the properties: kinds of HTTP answers, stated on the      *)
(* answer itself, and the texts the specification expects.                 *)
(***************************************************************************)
\* HTTP 200 whose body decodes to a mapping without error or code keys
IsMapping(http) ==
    /\ http.kind = "Response" /\ http.status_code = 200 /\ http.decodes
    /\ http.json.t = "dict"
    /\ \A i \in 1..Len(http.json.v) : http.json.v[i][1] \notin {"error", "code"}

HasKey(http, key) == \E i \in 1..Len(http.json.v) : http.json.v[i][1] = key
ValueOf(http, key) ==
    http.json.v[CHOOSE i \in 1..Len(http.json.v) : http.json.v[i][1] = key][2]

\* a mapping whose homeworks entry is a list
HasHomeworksList(http) ==
    /\ IsMapping(http) /\ HasKey(http, "homeworks")
    /\ ValueOf(http, "homeworks").t = "list"

EmptyHomeworks(http) ==
    HasHomeworksList(http) /\ ValueOf(http, "homeworks").v = <<>>

FirstRecord(http) == ValueOf(http, "homeworks").v[1]
FieldOf(record, key) ==
    record.v[CHOOSE i \in 1..Len(record.v) : record.v[i][1] = key][2]
HasField(record, key) ==
    record.t = "dict" /\ \E i \in 1..Len(record.v) : record.v[i][1] = key

\* a non-empty homeworks list whose first record has a name and a status
HasFirstRecord(http) ==
    /\ HasHomeworksList(http) /\ ValueOf(http, "homeworks").v # <<>>
    /\ HasField(FirstRecord(http), "homework_name")
    /\ HasField(FirstRecord(http), "status")
    /\ FieldOf(FirstRecord(http), "homework_name").t = "str"
    /\ FieldOf(FirstRecord(http), "status").t = "str"

KnownStatus(http) ==
    /\ HasFirstRecord(http)
    /\ FieldOf(FirstRecord(http), "status").v \in {"approved", "reviewing", "rejected"}

UnknownStatus(http) ==
    /\ HasFirstRecord(http)
    /\ FieldOf(FirstRecord(http), "status").v \notin {"approved", "reviewing", "rejected"}

\* a response the specification calls well-formed: a status can be read off
WellFormed(http) == EmptyHomeworks(http) \/ KnownStatus(http)

VerdictSentence(status) ==
    CASE status = "approved" -> "Rabota proverena: revyueru vsyo ponravilos. Ura!"
      [] status = "reviewing" -> "Rabota vzyata na proverku revyuerom."
      [] status = "rejected" -> "Rabota proverena: u revyuera est zamechaniya."

\* the status text the specification gives for a well-formed response
StatusText(http) ==
    IF EmptyHomeworks(http)
    THEN "Novye statusy v domashnej rabote otsutstvuyut"
    ELSE "Izmenilsya status proverki raboty \""
         \o FieldOf(FirstRecord(http), "homework_name").v \o "\". "
         \o VerdictSentence(FieldOf(FirstRecord(http), "status").v)

\* the loop's send_message call of this iteration has been made
CalledThisIteration == iteration >= 1 /\ call.iteration = iteration

\* this iteration follows one that ended normally with the same HTTP answer
SameAsPrevious ==
    /\ iteration >= 2 /\ previous.iteration = iteration - 1
    /\ previous.response = response

(***************************************************************************)
(* C1.  Deduplication: when two consecutive iterations receive the same    *)
(* well-formed response and the first one's status text was delivered to   *)
(* the chat, the second iteration delivers nothing (the text reaches the   *)
(* chat once, not twice).                                                  *)
(***************************************************************************)
C1_SameResponseDeliveredOnce ==
    (/\ pc = "finally_sleep" /\ CalledThisIteration
     /\ SameAsPrevious /\ WellFormed(response)
     /\ previous.call.delivered)
    => ~call.delivered

CrashReports(e) ==
    {"Sboj v rabote programmy: " \o StrOfError(e),
     "Oshibka dostupa: " \o StrOfError(e),
     "Nepoladki soedineniya: " \o StrOfError(e)}

(***************************************************************************)
(* C2.  Whenever the try body of an iteration fails (get_api_answer,       *)
(* check_response or parse_status raised), the except clause completes:    *)
(* no exception is left in flight, current_message is a crash report built *)
(* from the error's text, and main() is not left by that failure.          *)
(***************************************************************************)
C2_FailureCaughtAndReported ==
    (iteration >= 1 /\ failure # NoExc /\ pc # "try")
    => /\ pending = NoExc
       /\ uncaught.type \in {"None", "TelegramError"}
       /\ current_message.bound
       /\ current_message.value \in CrashReports(failure)

Non200(http) == http.kind = "Response" /\ http.status_code # 200

(***************************************************************************)
(* C3.  A non-200 answer makes get_api_answer raise the access error and   *)
(* the loop send the crash report for it; when the iteration before ended  *)
(* with the same non-200 answer and its report was delivered, this         *)
(* iteration delivers no second message.                                   *)
(***************************************************************************)
C3_AccessErrorReportedOnce ==
    (pc = "finally_sleep" /\ CalledThisIteration /\ Non200(response))
    => /\ failure.type = "ServerAccessError"
       /\ call.message = "Oshibka dostupa: " \o failure.text
       /\ (SameAsPrevious /\ previous.call.delivered => ~call.delivered)

\* this iteration has sent its GET and follows an iteration whose try body
\* failed
AfterFailedIteration ==
    /\ pc = "finally_send" /\ iteration >= 2
    /\ previous.iteration = iteration - 1
    /\ previous.failure # NoExc

(***************************************************************************)
(* C4.  A failing iteration leaves the watermark alone.                    *)
(***************************************************************************)
\* C4 as stated: after an iteration whose try body failed, the next
\* iteration starts from the same timestamp and its GET carries the same
\* from_date as the GET of the failing one.
C4_SameWindowAfterFailure ==
    AfterFailedIteration
    => started = previous.started /\ from_date = previous.from_date

\* C4 as amended: in an iteration whose try body failed timestamp keeps the
\* value it had when the iteration began, so the next iteration starts from
\* the same timestamp; its GET carries the same from_date when that
\* timestamp is truthy (non-zero), and the clock's reading when it is not.
C4_SameWatermarkAfterFailure ==
    /\ (iteration >= 1 /\ pc # "try" /\ failure # NoExc) => timestamp = started
    /\ AfterFailedIteration
       => /\ started = previous.started
          /\ Truthy(started)
             => from_date = started /\ from_date = previous.from_date
          /\ ~Truthy(started) => from_date = JInt(now)

C4_Witness ==
    /\ AfterFailedIteration
    /\ started = JInt(1000)
    /\ from_date = JInt(1000)

(***************************************************************************)
(* C5.  When the watermark moves.                                          *)
(***************************************************************************)
\* C5 as stated: once send_message has been reached, timestamp differs from
\* its value at the start of the iteration only if fetch and validation
\* succeeded and the notification was delivered.
C5_WatermarkMovesOnlyAfterDelivery ==
    (iteration >= 1 /\ pc \in {"finally_sleep", "exited"} /\ timestamp # started)
    => failure = NoExc /\ CalledThisIteration /\ call.delivered

\* C5 as amended: timestamp differs from its value at the start of the
\* iteration only if fetch and validation succeeded and the response carries
\* current_date, whose value it then has; it is assigned before send_message
\* is called and keeps that value whether or not the text is delivered.
C5_WatermarkMovesOnlyAfterValidation ==
    (iteration >= 1 /\ pc # "try" /\ timestamp # started)
    => /\ failure = NoExc
       /\ WellFormed(response)
       /\ HasKey(response, "current_date")
       /\ timestamp = ValueOf(response, "current_date")

C5_Witness ==
    /\ pc = "finally_sleep" /\ CalledThisIteration
    /\ ~call.delivered
    /\ timestamp # started

C7_MissingDateIsNotFailure ==
    (/\ iteration >= 1 /\ pc # "try"
     /\ WellFormed(response) /\ ~HasKey(response, "current_date"))
    => /\ failure = NoExc
       /\ pending = NoExc
       /\ uncaught.type # "KeyError"
       /\ current_message = Bound(StatusText(response))
       /\ timestamp = started

(***************************************************************************)
(* C8.  A send_message call of the loop whose delivery fails raises        *)
(* nothing: the failure is logged at error level, current_message and the  *)
(* exception in flight are as before (no crash report is made of it), and  *)
(* control goes on to time.sleep; after the sleep, unless an exception of  *)
(* the try statement is in flight, the loop is at its next fetch.          *)
(***************************************************************************)
C8_DeliveryFailureSwallowed ==
    [][/\ (/\ pc = "finally_send" /\ bot = "Bot" /\ current_message.bound
           /\ delivered' = delivered)
          => /\ pc' = "finally_sleep"
             /\ uncaught' = NoExc /\ exit_status' = -1
             /\ pending' = pending
             /\ current_message' = current_message
             /\ Len(log') = 1 /\ log'[1][1] = "ERROR"
       /\ (pc = "finally_sleep" /\ pending = NoExc)
          => /\ pc' = "try" /\ iteration' = iteration + 1
             /\ sleeps' = sleeps + 1
             /\ uncaught' = NoExc /\ exit_status' = -1]_vars

C8_Witness ==
    /\ pc = "try" /\ iteration >= 2
    /\ previous.iteration = iteration - 1
    /\ previous.call.iteration = previous.iteration
    /\ ~previous.call.delivered
    /\ sleeps = previous.iteration

AnyTokenMissing == \E i \in 1..3 : tokens[i] \in {JNone, JStr("")}

(***************************************************************************)
(* C9.  With a credential missing or empty main() exits with a non-zero    *)
(* status before any GET and any send_message call, and main() ends in no  *)
(* other way.                                                              *)
(***************************************************************************)
C9_OnlyMissingTokenStops ==
    /\ (AnyTokenMissing /\ pc # "check_tokens")
       => /\ pc = "exited" /\ exit_status > 0
          /\ fetches = 0 /\ call = NoCall /\ delivered = 0
    /\ pc = "exited" => AnyTokenMissing /\ uncaught.type = "SystemExit"

(***************************************************************************)
(* C10.  For a first record whose status is not a known one parse_status   *)
(* raises the unknown-status error naming the status, and current_message  *)
(* (the text of the iteration's send_message call) is the crash report     *)
(* made from that error.                                                   *)
(***************************************************************************)
C10_UnknownStatusReported ==
    (iteration >= 1 /\ pc # "try" /\ UnknownStatus(response))
    => /\ failure = Exc("KeyError",
                        "Neizvestnyj status domashnej raboty: "
                        \o FieldOf(FirstRecord(response), "status").v)
       /\ current_message =
             Bound("Sboj v rabote programmy: " \o StrOfError(failure))
       /\ CalledThisIteration => call.message = current_message.value

\* HTTP 200 whose body decodes to a list
IsListBody(http) ==
    /\ http.kind = "Response" /\ http.status_code = 200 /\ http.decodes
    /\ http.json.t = "list"

(***************************************************************************)
(* C11.  When the HTTP 200 body decodes to a list, the iteration fails     *)
(* with the invalid-response-shape TypeError that the type check of        *)
(* check_response raises, and not with an error that a mapping operation   *)
(* on the list raised.                                                     *)
(***************************************************************************)
C11_ListBodyRejectedByCheckResponse ==
    (iteration >= 1 /\ pc # "try" /\ IsListBody(response))
    => failure = Exc("TypeError", "Otvet API ne soderzhit slovarya")

\* HTTP 200 whose body decodes to a mapping that has no homeworks key
NoHomeworksKey(http) == IsMapping(http) /\ ~HasKey(http, "homeworks")

(***************************************************************************)
(* C12.  When the response is a mapping without the homeworks key,         *)
(* check_response raises the missing-field KeyError, the only message the  *)
(* iteration passes to send_message is the crash report for that error     *)
(* (no status notice of this or of an earlier iteration), and timestamp    *)
(* keeps the value it had when the iteration began.                        *)
(***************************************************************************)
C12_MissingHomeworksOnlyCrashReport ==
    (iteration >= 1 /\ pc # "try" /\ NoHomeworksKey(response))
    => /\ failure = Exc("KeyError",
               "Otsutstvuet neobhodimyj klyuch \"homeworks\" v otvete API")
       /\ timestamp = started
       /\ CalledThisIteration
          => call.message = "Sboj v rabote programmy: " \o StrOfError(failure)

\* HTTP 200 whose body decodes to a mapping with an error or a code key
HasErrorOrCode(http) ==
    /\ http.kind = "Response" /\ http.status_code = 200 /\ http.decodes
    /\ http.json.t = "dict"
    /\ \E i \in 1..Len(http.json.v) : http.json.v[i][1] \in {"error", "code"}

\* the pairs "key - value" of a mapping, joined as the message lists them
KeyValuePairs(http) ==
    Join([i \in 1..Len(http.json.v) |->
             http.json.v[i][1] \o " - " \o Str(http.json.v[i][2])], ", ")

ScalarValues(http) ==
    \A i \in 1..Len(http.json.v) : http.json.v[i][2].t \in {"str", "int", "NoneType"}

(***************************************************************************)
(* C13.  For every HTTP 200 payload that has an error or a code key,       *)
(* whatever its values are, get_api_answer raises ServerResponseError (no  *)
(* other kind of error), and its text lists the key - value pairs of the   *)
(* payload.                                                                *)
(***************************************************************************)
C13_RejectionIsServerResponseError ==
    (iteration >= 1 /\ pc # "try" /\ HasErrorOrCode(response))
    => /\ failure.type = "ServerResponseError"
       /\ ScalarValues(response)
          => failure.text =
                Format(ERROR_MESSAGES.get_api_answer.ServerResponseError,
                       [ENDPOINT |-> ENDPOINT, HEADERS |-> HEADERS,
                        message |-> KeyValuePairs(response)])

\* a well-formed response with nothing new: an empty homeworks list and the
\* current_date the next request is to start from
NothingNew(http) == EmptyHomeworks(http) /\ HasKey(http, "current_date")

C15_StartupReachesFirstFetch ==
    /\ ImportFrom(exceptions, ImportedNames) = NoExc
    /\ (~AnyTokenMissing /\ pc \notin {"check_tokens", "bot_init"})
       => /\ iteration >= 1
          /\ fetches = 0 => (pc = "try" /\ uncaught = NoExc)

\* the entries of a mapping other than homeworks, in their order
OtherEntries(http) == SelectSeq(http.json.v, LAMBDA e : e[1] # "homeworks")

\* two answers with non-empty homeworks lists that agree on homeworks[0],
\* on current_date and on every other entry, and differ in later records
DifferOnlyInLaterRecords(h1, h2) ==
    /\ HasHomeworksList(h1) /\ HasHomeworksList(h2)
    /\ ValueOf(h1, "homeworks").v # <<>> /\ ValueOf(h2, "homeworks").v # <<>>
    /\ FirstRecord(h1) = FirstRecord(h2)
    /\ OtherEntries(h1) = OtherEntries(h2)
    /\ ValueOf(h1, "homeworks") # ValueOf(h2, "homeworks")

(***************************************************************************)
(* C16.  What an iteration leaves behind (the message chosen, the error    *)
(* raised and the new watermark) depends on homeworks[0] and current_date  *)
(* only: had the answer been any other one that agrees with it on those    *)
(* and differs in later records, the iteration would have left the same    *)
(* message, error and watermark.                                           *)
(***************************************************************************)
C16_LaterRecordsDoNotMatter ==
    [][pc = "try"
       => \A other \in HttpOutcomes :
            DifferOnlyInLaterRecords(response', other)
            => LET body == TryBody(timestamp, current_message, now, other)
               IN /\ failure' = body.exc
                  /\ timestamp' = body.timestamp
                  /\ current_message' = Caught(body).current_message
                  /\ pending' = Caught(body).pending
                  /\ parsed' = body.parsed]_vars

\* an answer with two records, the second of an unknown status, went through
C16_Witness ==
    /\ pc = "finally_send" /\ iteration >= 1
    /\ HasHomeworksList(response) /\ Len(ValueOf(response, "homeworks").v) >= 2
    /\ \E other \in HttpOutcomes : DifferOnlyInLaterRecords(response, other)
    /\ FieldOf(ValueOf(response, "homeworks").v[2], "status").v = "unknown"
    /\ failure = NoExc
    /\ current_message = Bound(StatusText(response))

(***************************************************************************)
(* C17.  check_response makes its checks in a fixed order: a value that    *)
(* is not a mapping raises the invalid-shape TypeError; else a mapping     *)
(* without the homeworks key raises the missing-field KeyError; else a     *)
(* homeworks value that is not a list raises the TypeError naming its      *)
(* type; otherwise it returns exactly response['homeworks'], an empty      *)
(* list included.                                                          *)
(***************************************************************************)
C17_CheckResponseOrder ==
    pc = "checked"
    => IF response.json.t # "dict"
       THEN result = Raise(Exc("TypeError", "Otvet API ne soderzhit slovarya"))
       ELSE IF ~HasKey(response, "homeworks")
       THEN result = Raise(Exc("KeyError",
               "Otsutstvuet neobhodimyj klyuch \"homeworks\" v otvete API"))
       ELSE IF ValueOf(response, "homeworks").t # "list"
       THEN result = Raise(Exc("TypeError",
               "Nevernyj tip domashnej raboty. Tip poluchennoj domashnej "
               \o "raboty: <class '" \o ValueOf(response, "homeworks").t
               \o "'>, dolzhen byt list"))
       ELSE result = Return(ValueOf(response, "homeworks"))

\* the empty list came back as it is
C17_Witness ==
    /\ pc = "checked"
    /\ response.json.t = "dict" /\ HasKey(response, "homeworks")
    /\ ValueOf(response, "homeworks") = JList(<<>>)
    /\ result = Return(JList(<<>>))

(***************************************************************************)
(* C18.  Every iteration of the loop, failed or not, ends with exactly one *)
(* sleep before the next get_api_answer call (the GET of iteration n is    *)
(* preceded by n - 1 sleeps and n - 1 GETs, and a run that has ended has   *)
(* slept once for each GET it made), and each sleep lasts the fixed retry  *)
(* period, which is 600 seconds.                                           *)
(***************************************************************************)
C18_OneSleepOf600Seconds ==
    /\ (iteration >= 1 /\ pc = "try")
       => sleeps = iteration - 1 /\ fetches = iteration - 1
    /\ (iteration >= 1 /\ pc = "exited") => sleeps = fetches
    /\ now = StartTime + 600 * sleeps

(***************************************************************************)
(* C19.  Whenever the finally block comes to call send_message, the        *)
(* current_message it passes was assigned during that same iteration: it   *)
(* is never unassigned and never the value an earlier iteration left,      *)
(* whichever except clause ran.                                            *)
(***************************************************************************)
C19_MessageAssignedThisIteration ==
    (iteration >= 1 /\ pc = "finally_send")
    => current_message.bound /\ assigned_in = iteration

(***************************************************************************)
(* C20.  Every send_message call of the loop receives a bot that was       *)
(* built at startup: the loop is never entered with bot unassigned, also   *)
(* when telegram.Bot raised a TelegramError that main() caught.            *)
(***************************************************************************)
C20_LoopEnteredWithBot ==
    /\ pc \in {"try", "finally_send", "finally_sleep"} => bot = "Bot"
    /\ (iteration >= 1 /\ uncaught.type = "UnboundLocalError")
       => uncaught.text # "bot"

====
